---- MODULE Spec2Model ----
(***************************************************************************)
(* Model of the drift-proxy server (src/server.js): the Dispatcher         *)
(* (app.get('/proxy/*')), the redirect-following Fetcher                   *)
(* (fetchWithRedirects), the admin endpoints and the HTML rewrite engine   *)
(* (rewriteUrls / toProxyUrl).                                             *)
(*                                                                         *)
(* Strings are sequences of lexemes.  A lexeme is either one character     *)
(* ("/", "%", "&", "a", a hex digit, ...) or an indivisible unit whose     *)
(* inside no operation of the program looks into (a scheme such as         *)
(* "data:", an origin such as "http://site.test").                         *)
(*                                                                         *)
(* Node runs every handler and every event callback to completion on one   *)
(* thread, so each handler / callback is one atomic action.                *)
(***************************************************************************)
EXTENDS Integers, Sequences, FiniteSets, TLC

(***************************************************************************)
(* Program constants                                                       *)
(***************************************************************************)
MAX_REDIRECTS == 10

(***************************************************************************)
(* Bounds of the model                                                     *)
(***************************************************************************)
\* most characters or escapes after "origin/" in a URL drawn for the round trip
MaxTail == 3
\* number of rewritable references in a drawn document
MaxSegs == 2
\* how many times rewriteUrls is applied to a document
MaxPasses == 2

(***************************************************************************)
(* Lexemes                                                                 *)
(***************************************************************************)
Origins == {"http://site.test", "http://ads.test"}
OpaqueSchemes == {"data:", "javascript:", "blob:", "about:"}

URIError == "URIError"
InvalidURL == "Invalid URL"

\* encodeURIComponent leaves A-Z a-z 0-9 - _ . ! ~ * ' ( ) alone
Unreserved == {"a", "proxy", "x", "y", "0", "1", "2", "3", "5", "6", "C", "D", "F"}

\* encodeURIComponent of one lexeme
EncodeLexeme(c) ==
    CASE c \in Unreserved -> <<c>>
      [] c = "%" -> <<"%", "2", "5">>
      [] c = "&" -> <<"%", "2", "6">>
      [] c = "/" -> <<"%", "2", "F">>
      [] c = "#" -> <<"%", "2", "3">>
      [] c = " " -> <<"%", "2", "0">>
      [] c = "," -> <<"%", "2", "C">>
      [] c = "=" -> <<"%", "3", "D">>
      [] c = "?" -> <<"%", "3", "F">>
      [] c = "http://site.test" -> <<"http%3A%2F%2Fsite.test">>
      [] c = "http://ads.test" -> <<"http%3A%2F%2Fads.test">>
      [] c = "data:" -> <<"data%3A">>
      [] c = "javascript:" -> <<"javascript%3A">>
      [] c = "blob:" -> <<"blob%3A">>
      [] c = "about:" -> <<"about%3A">>
      [] OTHER -> <<c>>

RECURSIVE encodeURIComponent(_)
encodeURIComponent(s) ==
    IF s = <<>> THEN <<>>
    ELSE EncodeLexeme(Head(s)) \o encodeURIComponent(Tail(s))

\* the character a %XX escape stands for; "" when XX is no such pair
Unescape(h, l) ==
    CASE h = "2" /\ l = "5" -> "%"
      [] h = "2" /\ l = "6" -> "&"
      [] h = "2" /\ l = "F" -> "/"
      [] h = "2" /\ l = "3" -> "#"
      [] h = "2" /\ l = "0" -> " "
      [] h = "2" /\ l = "C" -> ","
      [] h = "3" /\ l = "D" -> "="
      [] h = "3" /\ l = "F" -> "?"
      [] OTHER -> ""

DecodeLexeme(c) ==
    CASE c = "http%3A%2F%2Fsite.test" -> "http://site.test"
      [] c = "http%3A%2F%2Fads.test" -> "http://ads.test"
      [] c = "data%3A" -> "data:"
      [] c = "javascript%3A" -> "javascript:"
      [] c = "blob%3A" -> "blob:"
      [] c = "about%3A" -> "about:"
      [] OTHER -> c

\* decodeURIComponent: every %XX becomes its character; a "%" that does
\* not start an escape throws URIError
RECURSIVE decodeURIComponent(_)
decodeURIComponent(s) ==
    IF s = <<>> THEN <<>>
    ELSE IF Head(s) = "%"
         THEN IF Len(s) < 3 \/ Unescape(s[2], s[3]) = ""
              THEN URIError
              ELSE LET rest == decodeURIComponent(SubSeq(s, 4, Len(s)))
                   IN  IF rest = URIError THEN URIError
                       ELSE <<Unescape(s[2], s[3])>> \o rest
         ELSE LET rest == decodeURIComponent(Tail(s))
              IN  IF rest = URIError THEN URIError
                  ELSE <<DecodeLexeme(Head(s))>> \o rest

(***************************************************************************)
(* WHATWG URL: new URL(raw).href, new URL(raw, base).href, .hostname       *)
(***************************************************************************)
\* the serializer percent-encodes a space of the path; other lexemes of
\* the model are serialized as written
RECURSIVE SerializePath(_)
SerializePath(s) ==
    IF s = <<>> THEN <<>>
    ELSE (IF Head(s) = " " THEN <<"%", "2", "0">> ELSE <<Head(s)>>)
         \o SerializePath(Tail(s))

\* new URL(raw).href: an absolute URL or a TypeError (Invalid URL).  An
\* origin without a path is serialized with the path "/".  (No string of
\* the model continues an origin's host name with further characters.)
ParseURL(raw) ==
    IF raw = <<>> THEN InvalidURL
    ELSE IF Head(raw) \in Origins
         THEN IF Len(raw) = 1 THEN <<Head(raw), "/">>
              ELSE IF raw[2] \in {"/", "#"} THEN <<Head(raw)>> \o
                        (IF raw[2] = "#" THEN <<"/">> ELSE <<>>) \o SerializePath(Tail(raw))
              ELSE InvalidURL
    ELSE IF Head(raw) \in OpaqueSchemes THEN raw
    ELSE InvalidURL

\* new URL(raw, base).href for an absolute http base "origin/..."
ResolveURL(raw, base) ==
    IF ParseURL(raw) # InvalidURL THEN ParseURL(raw)
    ELSE IF raw = <<>> THEN base
    ELSE IF Head(raw) = "#" THEN base \o SerializePath(raw)
    ELSE IF Head(raw) = "/" THEN <<Head(base)>> \o SerializePath(raw)
    ELSE <<Head(base), "/">> \o SerializePath(raw)

\* new URL(u).hostname of a parsed URL
Hostname(u) ==
    CASE Head(u) = "http://site.test" -> "site.test"
      [] Head(u) = "http://ads.test" -> "ads.test"
      [] OTHER -> ""

\* parsedUrl.protocol === 'https:' ? https : http, and whether that module
\* accepts the URL's protocol (http.get throws ERR_INVALID_PROTOCOL otherwise)
ProtocolSupported(u) == Head(u) \in Origins

StartsWith(s, p) == Len(s) >= Len(p) /\ SubSeq(s, 1, Len(p)) = p

ProxyPrefix == <<"/", "proxy", "/">>

(***************************************************************************)
(* Blocklist Gate: require('./blocklist').isBlocked, a hostname -> boolean *)
(* decision supplied from outside server.js                                *)
(***************************************************************************)
BlockedHosts == {"ads.test"}

isBlocked(hostname) == hostname \in BlockedHosts

(***************************************************************************)
(* State                                                                   *)
(***************************************************************************)
Reqs == {"r1", "r2"}

VARIABLES
    adBlockEnabled,  \* let adBlockEnabled
    blockedCount,    \* let blockedCount
    adminResp,       \* the last answer of /blocked-count or /adblock
    req,             \* per proxy request: the handler's and the fetcher's state
    doc,             \* rewrite engine: the document given to rewriteUrls
    html,            \* rewrite engine: rewriteUrls' current output
    pass,            \* rewrite engine: how often rewriteUrls has been applied
    rawUrl,          \* round trip: the absolute URL U found in a page
    proxyRef,        \* round trip: the reference toProxyUrl emitted for U
    host,            \* injected script: what the host environment refuses or lacks
    pc,              \* injected script: the interception it installs next
    installed,       \* injected script: the interceptions installed so far
    aborted,         \* injected script: an exception left the script uncaught
    el,              \* page: an element of the document, its tag and src/href
    fetches,         \* page: the values the browser began to load for it
    pending          \* page: a mutation record awaits the observer's callback

vars == <<adBlockEnabled, blockedCount, adminResp, req,
          doc, html, pass, rawUrl, proxyRef,
          host, pc, installed, aborted, el, fetches, pending>>

serverVars == <<adBlockEnabled, blockedCount, adminResp, req>>
rewriteVars == <<doc, html, pass>>
roundTripVars == <<rawUrl, proxyRef>>
scriptVars == <<host, pc, installed, aborted>>
pageVars == <<el, fetches, pending>>

\* no fault of the host environment
NoFault == [at |-> 0, fault |-> "none"]

\* no element yet
NoEl == [tag |-> "", attr |-> <<>>]

\* no proxied page is loaded: the injected script does not run
NoPage ==
    /\ host = NoFault /\ pc = 0 /\ installed = {} /\ aborted = FALSE
    /\ el = NoEl /\ fetches = {} /\ pending = FALSE

NoResp == [status |-> 0, body |-> "none", finalUrl |-> <<>>]

\* phase: "idle"      the request has not arrived
\*        "headers"   the current hop awaits its response headers
\*        "body"      the current (terminal) hop's body is being received
\*        "destroyed" the timeout handler has destroyed the current hop
\*        "closed"    no hop is in flight
\* issued: history, the number of upstream requests issued for the request
\* seen:   history, the value of blockedCount when the request arrived
\* awaiting: the number of upstream requests whose response headers have
\*        not arrived yet
\* headers: the headers of the answer sent, a set of <<name, value>>
IdleReq ==
    [phase |-> "idle", hops |-> 0, url |-> <<>>, statusCode |-> 0,
     responded |-> FALSE, resp |-> NoResp, issued |-> 0, seen |-> 0,
     awaiting |-> 0, headers |-> {}]

NoAdminResp == [kind |-> "none", count |-> 0, enabled |-> FALSE]

Init ==
    /\ adBlockEnabled = TRUE
    /\ blockedCount = 0
    /\ adminResp = NoAdminResp
    /\ req = [r \in Reqs |-> IdleReq]
    /\ doc = <<>> /\ html = <<>> /\ pass = 0
    /\ rawUrl = <<>> /\ proxyRef = <<>>
    /\ NoPage

(***************************************************************************)
(* The Dispatcher's fetch callback (the res.status(..) it sends)           *)
(***************************************************************************)
TooManyRedirectsErr == "Too many redirects"
TimedOutErr == "Request timed out"
NetworkErr == "network error"

JsonError(status) == [status |-> status, body |-> "json_error", finalUrl |-> <<>>]

\* Respond without the 'Request timed out' case: a timeout is answered
\* like any other fetch failure
Respond_NoTimeoutCase(err, response) ==
    IF err # ""
    THEN IF err = TooManyRedirectsErr THEN JsonError(508)
         ELSE JsonError(500)
    ELSE [status |-> response.statusCode, body |-> "content",
          finalUrl |-> response.finalUrl]

\* the answer the callback sends for (err, response)
Respond(err, response) ==
    IF err # ""
    THEN IF err = TooManyRedirectsErr THEN JsonError(508)
         ELSE IF err = TimedOutErr THEN JsonError(504)
         ELSE JsonError(500)
    ELSE [status |-> response.statusCode, body |-> "content",
          finalUrl |-> response.finalUrl]

NoResponse == [statusCode |-> 0, finalUrl |-> <<>>, headers |-> {}]

\* the headers res.json sends
JsonHeaders == {<<"content-type", "application/json">>}

\* the headers of the error page Express sends for an exception the
\* handler throws, or for a path it cannot decode
ErrorPageHeaders ==
    {<<"content-type", "text/html">>, <<"content-security-policy", "default-src 'none'">>,
     <<"x-content-type-options", "nosniff">>}

\* the headers the middleware at app.use has set on res when the handler
\* runs: none, as the path of a proxy request starts with /proxy/
MiddlewareHeaders == {}

\* res.set(name, value)
SetHeader(h, name, value) == {x \in h : x[1] # name} \cup {<<name, value>>}

\* res.removeHeader(name)
RemoveHeader(h, name) == {x \in h : x[1] # name}

\* response.headers['content-type'] || 'text/html'
ContentTypeOf(upstream) ==
    IF \E x \in upstream : x[1] = "content-type"
    THEN (CHOOSE x \in upstream : x[1] = "content-type")[2]
    ELSE "text/html"

\* a handler that forwards the upstream response's headers
ContentHeaders_Forwarded(upstream) ==
    LET h1 == MiddlewareHeaders \cup upstream
        h2 == SetHeader(h1, "content-type", ContentTypeOf(upstream))
        h3 == SetHeader(h2, "referrer-policy", "no-referrer")
        h4 == SetHeader(h3, "x-content-type-options", "nosniff")
    IN  SetHeader(h4, "content-security-policy", "permissive")

\* the headers the callback gives to an answer that carries upstream
\* content; nothing in the handler copies the upstream response's headers
ContentHeaders(upstream) ==
    LET h1 == SetHeader(MiddlewareHeaders, "content-type", ContentTypeOf(upstream))
        h2 == SetHeader(h1, "cache-control", "no-store, no-cache, must-revalidate, private")
        h3 == SetHeader(h2, "pragma", "no-cache")
        h4 == SetHeader(h3, "expires", "0")
        h5 == SetHeader(h4, "referrer-policy", "no-referrer")
        h6 == SetHeader(h5, "x-content-type-options", "nosniff")
        h7 == RemoveHeader(h6, "set-cookie")
        h8 == RemoveHeader(h7, "x-frame-options")
        h9 == RemoveHeader(h8, "content-security-policy-report-only")
    IN  SetHeader(h9, "content-security-policy", "permissive")

\* the headers of the answer the callback sends for (err, response)
ResponseHeaders(err, response) ==
    IF err # "" THEN JsonHeaders ELSE ContentHeaders(response.headers)

\* a callback without the responded guard
Callback_NoGuard(q, err, response) ==
    [q EXCEPT !.responded = TRUE, !.resp = Respond(err, response),
              !.headers = ResponseHeaders(err, response)]

\* (err, response) => { if (responded) return; responded = true; ... }
Callback(q, err, response) ==
    IF q.responded THEN q
    ELSE [q EXCEPT !.responded = TRUE, !.resp = Respond(err, response),
                   !.headers = ResponseHeaders(err, response)]

(***************************************************************************)
(* fetchWithRedirects                                                      *)
(***************************************************************************)
\* the bound tested with >= instead of >
TooManyRedirects_OffByOne(redirectCount) == redirectCount >= MAX_REDIRECTS

\* if (redirectCount > MAX_REDIRECTS)
TooManyRedirects(redirectCount) == redirectCount > MAX_REDIRECTS

\* one call of fetchWithRedirects(targetUrl, redirectCount, callback) on
\* the request state q: the state after the call returns
fetchWithRedirects(q, targetUrl, redirectCount) ==
    IF TooManyRedirects(redirectCount)
    THEN Callback([q EXCEPT !.phase = "closed", !.hops = redirectCount],
                  TooManyRedirectsErr, NoResponse)
    ELSE IF ParseURL(targetUrl) = InvalidURL \/ ~ProtocolSupported(targetUrl)
    THEN \* new URL / protocol.get throws inside the try: catch -> callback(err)
         Callback([q EXCEPT !.phase = "closed", !.hops = redirectCount],
                  InvalidURL, NoResponse)
    ELSE [q EXCEPT !.phase = "headers", !.hops = redirectCount,
                   !.url = targetUrl, !.issued = q.issued + 1,
                   !.awaiting = q.awaiting + 1]

(***************************************************************************)
(* Upstream behaviour (inputs)                                             *)
(***************************************************************************)
\* Location headers an upstream may answer a hop with
Locations == {<<"http://site.test", "/">>, <<"http://ads.test", "/">>}

\* status codes of the responses that are not followed: a 200, and a 304,
\* which is in 300..399 but carries no Location header
TerminalStatuses == {200, 304}

\* proxyRes.headers of a terminal response: none of interest, or a
\* content type with cookies, framing and caching directives
UpstreamHeaders ==
    { {},
      { <<"content-type", "text/css">>, <<"set-cookie", "a">>,
        <<"x-frame-options", "DENY">>,
        <<"content-security-policy-report-only", "a">>,
        <<"cache-control", "public">> } }

\* the hop's response is passed on while its headers still count as awaited
HeadersArrived_StillAwaited(q) == q

\* protocol.get's response callback runs: the hop's headers have arrived
HeadersArrived(q) == [q EXCEPT !.awaiting = q.awaiting - 1]

\* a terminal response answered as soon as its headers arrive
TerminalResponse_Streamed(q, statusCode) ==
    Callback([HeadersArrived(q) EXCEPT !.phase = "body", !.statusCode = statusCode], "",
             [statusCode |-> statusCode, finalUrl |-> q.url, headers |-> {}])

\* let data = []; proxyRes.on('data', ...); proxyRes.on('end', ...):
\* the body is collected, nothing is sent
TerminalResponse(q, statusCode) ==
    [HeadersArrived(q) EXCEPT !.phase = "body", !.statusCode = statusCode]

(***************************************************************************)
(* Fetcher events                                                          *)
(***************************************************************************)
\* the response callback of protocol.get, on a 3xx with a Location header
ReceiveRedirect(r, location) ==
    /\ req[r].phase = "headers"
    /\ LET redirectUrl == ResolveURL(location, req[r].url)
       IN  req' = [req EXCEPT ![r] =
                     fetchWithRedirects(HeadersArrived(req[r]), redirectUrl,
                                        req[r].hops + 1)]
    /\ UNCHANGED <<adBlockEnabled, blockedCount, adminResp>>
    /\ UNCHANGED <<rewriteVars, roundTripVars, scriptVars, pageVars>>

\* the response callback of protocol.get, on any other response
ReceiveTerminal(r, statusCode) ==
    /\ req[r].phase = "headers"
    /\ req' = [req EXCEPT ![r] = TerminalResponse(req[r], statusCode)]
    /\ UNCHANGED <<adBlockEnabled, blockedCount, adminResp>>
    /\ UNCHANGED <<rewriteVars, roundTripVars, scriptVars, pageVars>>

\* proxyRes.on('end'), for the headers the terminal response came with
\* (proxyRes.headers is fixed when the response arrives, and read here
\* for the first time)
BodyEnd(r, headers) ==
    /\ req[r].phase = "body"
    /\ req' = [req EXCEPT ![r] =
                 Callback([req[r] EXCEPT !.phase = "closed"], "",
                          [statusCode |-> req[r].statusCode,
                           headers |-> headers,
                           finalUrl |-> req[r].url])]
    /\ UNCHANGED <<adBlockEnabled, blockedCount, adminResp>>
    /\ UNCHANGED <<rewriteVars, roundTripVars, scriptVars, pageVars>>

\* proxyReq.on('error') of the hop in flight
TransportError(r) ==
    /\ req[r].phase \in {"headers", "body"}
    /\ req' = [req EXCEPT ![r] =
                 Callback([req[r] EXCEPT !.phase = "closed", !.awaiting = 0],
                          NetworkErr, NoResponse)]
    /\ UNCHANGED <<adBlockEnabled, blockedCount, adminResp>>
    /\ UNCHANGED <<rewriteVars, roundTripVars, scriptVars, pageVars>>

\* proxyReq.setTimeout(10000, ...) of the hop in flight: destroy, callback
Timeout(r) ==
    /\ req[r].phase \in {"headers", "body"}
    /\ req' = [req EXCEPT ![r] =
                 Callback([req[r] EXCEPT !.phase = "destroyed", !.awaiting = 0],
                          TimedOutErr, NoResponse)]
    /\ UNCHANGED <<adBlockEnabled, blockedCount, adminResp>>
    /\ UNCHANGED <<rewriteVars, roundTripVars, scriptVars, pageVars>>

\* proxyReq.on('error') of a hop the timeout handler destroyed
\* (the 'socket hang up' error the destroyed request emits)
DestroyedError(r) ==
    /\ req[r].phase = "destroyed"
    /\ req' = [req EXCEPT ![r] =
                 Callback([req[r] EXCEPT !.phase = "closed"], NetworkErr, NoResponse)]
    /\ UNCHANGED <<adBlockEnabled, blockedCount, adminResp>>
    /\ UNCHANGED <<rewriteVars, roundTripVars, scriptVars, pageVars>>

\* proxyReq.on('error') of an earlier hop: its listener stays registered
\* after the redirect was followed, and its socket may fail while
\* proxyRes.resume() drains the redirect's body.  Nothing in the program
\* waits for or observes the end of that draining, so the event is
\* possible whenever an earlier hop exists.
DrainError(r) ==
    /\ req[r].hops >= 1
    /\ req' = [req EXCEPT ![r] = Callback(req[r], NetworkErr, NoResponse)]
    /\ UNCHANGED <<adBlockEnabled, blockedCount, adminResp>>
    /\ UNCHANGED <<rewriteVars, roundTripVars, scriptVars, pageVars>>

(***************************************************************************)
(* Dispatcher: app.get('/proxy/*')                                         *)
(***************************************************************************)
\* the gate consulted whatever adBlockEnabled is
GateBlocks_IgnoresFlag(enabled, targetUrl) ==
    /\ ParseURL(targetUrl) # InvalidURL
    /\ isBlocked(Hostname(ParseURL(targetUrl)))

\* the gate never consulted
GateBlocks_Never(enabled, targetUrl) == FALSE

\* if (adBlockEnabled) { try { hostname = new URL(targetUrl).hostname;
\*                             if (isBlocked(hostname)) ... } catch {} }
GateBlocks(enabled, targetUrl) ==
    /\ enabled
    /\ ParseURL(targetUrl) # InvalidURL
    /\ isBlocked(Hostname(ParseURL(targetUrl)))

\* req.query, the object the query parser builds from the parameters
\* <<key, value>> of the request line: one property per key, in the order
\* of the keys' first occurrences; a key that occurs once has its value,
\* a repeated key has the array of its values.  The object is modelled as
\* the sequence of its entries <<key, values>>.
RECURSIVE ParseQuery(_)
ParseQuery(query) ==
    IF query = <<>> THEN <<>>
    ELSE LET key == Head(query)[1]
             same == SelectSeq(query, LAMBDA p : p[1] = key)
             others == SelectSeq(query, LAMBDA p : p[1] # key)
         IN  << <<key, [i \in 1..Len(same) |-> same[i][2]]>> >> \o ParseQuery(others)

\* String(value), the conversion searchParams.append applies to its second
\* argument: a string is itself, an array is its elements joined by ","
RECURSIVE StringOf(_)
StringOf(values) ==
    IF Len(values) = 1 THEN <<values[1]>>
    ELSE <<values[1], ",">> \o StringOf(Tail(values))

\* the application/x-www-form-urlencoded serializer, per character
RECURSIVE FormEncode(_)
FormEncode(s) ==
    IF s = <<>> THEN <<>>
    ELSE (IF Head(s) = "," THEN <<"%", "2", "C">> ELSE <<Head(s)>>) \o FormEncode(Tail(s))

\* the text "k1=v1&k2=v2..." of the appended entries
RECURSIVE SerializeEntries(_)
SerializeEntries(entries) ==
    IF entries = <<>> THEN <<>>
    ELSE <<Head(entries)[1], "=">> \o FormEncode(StringOf(Head(entries)[2]))
         \o (IF Len(entries) > 1 THEN <<"&">> ELSE <<>>)
         \o SerializeEntries(Tail(entries))

\* the query is put in front of the fragment
BeforeFragment(u) ==
    IF \E i \in 1..Len(u) : u[i] = "#"
    THEN SubSeq(u, 1, (CHOOSE i \in 1..Len(u) :
                          u[i] = "#" /\ \A j \in 1..(i - 1) : u[j] # "#") - 1)
    ELSE u

\* const parsed = new URL(targetUrl);
\* for (const [key, value] of Object.entries(req.query))
\*     parsed.searchParams.append(key, value);
\* parsed.href
AppendQuery(targetUrl, query) ==
    LET href == ParseURL(targetUrl)
        own == BeforeFragment(href)
    IN  own
          \o (IF \E i \in 1..Len(own) : own[i] = "?" THEN <<"&">> ELSE <<"?">>)
          \o SerializeEntries(ParseQuery(query))
          \o SubSeq(href, Len(own) + 1, Len(href))

\* an update that is lost
Increment_Lost(n) == n

\* the value of blockedCount after blockedCount++
Increment(n) == n + 1

\* the answers that are sent without the fetch callback
Answer(q, status, body) ==
    [q EXCEPT !.phase = "closed",
              !.resp = [status |-> status, body |-> body, finalUrl |-> <<>>],
              !.headers = CASE body = "json_error" -> JsonHeaders
                            [] body = "html_error" -> ErrorPageHeaders
                            [] OTHER -> MiddlewareHeaders]

\* The handler, for the raw (still percent-encoded) text after /proxy/ and
\* the request's query parameters.  Express decodes the route parameter
\* once (answering 400 itself when that fails); the handler decodes
\* req.params[0] again.
ProxyRequest(r, path, query) ==
    /\ req[r].phase = "idle"
    /\ LET param == decodeURIComponent(path)
           targetUrl == decodeURIComponent(param)
           arrived == [IdleReq EXCEPT !.seen = blockedCount]
       IN  IF param = URIError
           THEN /\ req' = [req EXCEPT ![r] = Answer(arrived, 400, "html_error")]
                /\ UNCHANGED blockedCount
           ELSE IF targetUrl = URIError
           THEN \* decodeURIComponent throws in the handler: Express answers 500
                /\ req' = [req EXCEPT ![r] = Answer(arrived, 500, "html_error")]
                /\ UNCHANGED blockedCount
           ELSE IF targetUrl = <<>>
           THEN /\ req' = [req EXCEPT ![r] = Answer(arrived, 400, "json_error")]
                /\ UNCHANGED blockedCount
           ELSE IF GateBlocks(adBlockEnabled, targetUrl)
           THEN /\ blockedCount' = Increment(blockedCount)
                /\ req' = [req EXCEPT ![r] = Answer(arrived, 204, "empty")]
           ELSE IF query # <<>> /\ ParseURL(targetUrl) = InvalidURL
           THEN \* new URL(targetUrl) throws in the handler: Express answers 500
                /\ req' = [req EXCEPT ![r] = Answer(arrived, 500, "html_error")]
                /\ UNCHANGED blockedCount
           ELSE /\ req' = [req EXCEPT ![r] =
                             fetchWithRedirects(arrived,
                                 IF query # <<>> THEN AppendQuery(targetUrl, query)
                                                 ELSE targetUrl,
                                 0)]
                /\ UNCHANGED blockedCount
    /\ UNCHANGED <<adBlockEnabled, adminResp>>
    /\ UNCHANGED <<rewriteVars, roundTripVars, scriptVars, pageVars>>

(***************************************************************************)
(* Admin endpoints                                                         *)
(***************************************************************************)
\* app.get('/blocked-count')
GetBlockedCount ==
    /\ adminResp' = [kind |-> "count", count |-> blockedCount, enabled |-> FALSE]
    /\ UNCHANGED <<adBlockEnabled, blockedCount, req>>
    /\ UNCHANGED <<rewriteVars, roundTripVars, scriptVars, pageVars>>

\* the values req.body.enabled may have: true, false, or anything else
BodyEnabledValues == {"true", "false", "absent"}

\* a toggle that can only switch the gate on
BodyEnabled_AlwaysOn(enabled) == TRUE

\* req.body.enabled !== false
BodyEnabled(enabled) == enabled # "false"

\* app.post('/adblock'): adBlockEnabled = req.body.enabled !== false
PostAdblock(enabled) ==
    /\ adBlockEnabled' = BodyEnabled(enabled)
    /\ adminResp' = [kind |-> "enabled", count |-> 0, enabled |-> adBlockEnabled']
    /\ UNCHANGED <<blockedCount, req>>
    /\ UNCHANGED <<rewriteVars, roundTripVars, scriptVars, pageVars>>

(***************************************************************************)
(* Requests the clients send                                               *)
(***************************************************************************)
ProxyPaths ==
    { <<>>,                                               \* /proxy/
      <<"a">>,                                            \* /proxy/a
      <<"%">>,                                            \* /proxy/%
      <<"%", "2", "5", "a">>,                             \* /proxy/%25a
      encodeURIComponent(<<"http://site.test", "/">>),
      encodeURIComponent(<<"http://site.test", "/", "?", "x", "=", "1">>),
      encodeURIComponent(<<"http://ads.test", "/">>) }

\* the parameters <<key, value>> of the request line after the "?"
Queries ==
    { <<>>,
      << <<"y", "2">> >>,                                 \* ?y=2
      << <<"y", "1">>, <<"y", "2">> >> }                  \* ?y=1&y=2

Next ==
    \/ \E r \in Reqs, path \in ProxyPaths, query \in Queries : ProxyRequest(r, path, query)
    \/ \E r \in Reqs, location \in Locations : ReceiveRedirect(r, location)
    \/ \E r \in Reqs, statusCode \in TerminalStatuses : ReceiveTerminal(r, statusCode)
    \/ \E r \in Reqs, headers \in UpstreamHeaders : BodyEnd(r, headers)
    \/ \E r \in Reqs : TransportError(r)
    \/ \E r \in Reqs : Timeout(r)
    \/ \E r \in Reqs : DestroyedError(r)
    \/ \E r \in Reqs : DrainError(r)
    \/ GetBlockedCount
    \/ \E enabled \in BodyEnabledValues : PostAdblock(enabled)

Spec == Init /\ [][Next]_vars

(***************************************************************************)
(* Rewrite Engine: rewriteUrls(html, baseUrl)                              *)
(*                                                                         *)
(* A document is the sequence of its references.  Each reference has the   *)
(* position the regular expressions of rewriteUrls find it in, its text,   *)
(* and whether it stands inside the body of a <script> element.            *)
(***************************************************************************)
Positions == {"attr_dq", "attr_sq", "srcset", "url"}

\* raw.replace(/&amp;/g, '&')...: HTML entities become their characters
RECURSIVE EntityDecode(_)
EntityDecode(s) ==
    IF s = <<>> THEN <<>>
    ELSE (IF Head(s) = "&amp;" THEN <<"&">> ELSE <<Head(s)>>) \o EntityDecode(Tail(s))

\* new URL(raw, baseUrl) throws for a scheme without a host
Unresolvable(raw) == raw # <<>> /\ Head(raw) = "http://"

\* function toProxyUrl(raw), for the baseUrl of the enclosing rewriteUrls
toProxyUrl(raw, baseUrl) ==
    LET decoded == EntityDecode(raw)
    IN  IF Unresolvable(decoded) THEN decoded
        ELSE ProxyPrefix \o encodeURIComponent(ResolveURL(decoded, baseUrl))

\* url.startsWith('data:') || url.startsWith('javascript:') || url.startsWith('#')
AttrSkipped(url) ==
    url # <<>> /\ Head(url) \in {"data:", "javascript:", "#"}

\* url.startsWith('data:')
UrlFnSkipped(url) == url # <<>> /\ Head(url) = "data:"

\* the two href/src/action passes (double- and single-quoted)
RewriteAttr(seg, baseUrl) ==
    IF seg.pos \in {"attr_dq", "attr_sq"} /\ ~AttrSkipped(seg.ref)
    THEN [seg EXCEPT !.ref = toProxyUrl(seg.ref, baseUrl)]
    ELSE seg

\* the srcset pass: if (parts[0]) parts[0] = toProxyUrl(parts[0])
RewriteSrcset(seg, baseUrl) ==
    IF seg.pos = "srcset" /\ seg.ref # <<>>
    THEN [seg EXCEPT !.ref = toProxyUrl(seg.ref, baseUrl)]
    ELSE seg

\* the url(...) pass, which runs while the <script> elements are replaced
\* by placeholders; [^'")]+? needs at least one character
RewriteUrlFn(seg, baseUrl) ==
    IF seg.pos = "url" /\ ~seg.inScript /\ seg.ref # <<>> /\ ~UrlFnSkipped(seg.ref)
    THEN [seg EXCEPT !.ref = toProxyUrl(seg.ref, baseUrl)]
    ELSE seg

rewriteUrls(h, baseUrl) ==
    [i \in 1..Len(h) |->
        RewriteUrlFn(RewriteSrcset(RewriteAttr(h[i], baseUrl), baseUrl), baseUrl)]

(***************************************************************************)
(* Specification of the rewrite engine: rewriteUrls applied repeatedly to  *)
(* a drawn document                                                        *)
(***************************************************************************)
BaseUrl == <<"http://site.test", "/">>

RefSamples ==
    { <<"data:", "a">>, <<"javascript:", "a">>, <<"blob:", "a">>,
      <<"about:", "a">>, <<"#", "a">>,
      <<"http://ads.test", "/", "a">>, <<"a">>, <<"/", "a", "&amp;", "a">>,
      ProxyPrefix \o encodeURIComponent(<<"http://site.test", "/">>) }

Segments == [pos : Positions, ref : RefSamples, inScript : BOOLEAN]

Docs == UNION { [1..n -> Segments] : n \in 1..MaxSegs }

InitRewrite ==
    /\ adBlockEnabled = TRUE
    /\ blockedCount = 0
    /\ adminResp = NoAdminResp
    /\ req = [r \in Reqs |-> IdleReq]
    /\ doc \in Docs /\ html = doc /\ pass = 0
    /\ rawUrl = <<>> /\ proxyRef = <<>>
    /\ NoPage

\* html = rewriteUrls(html, finalUrl)
RewritePass ==
    /\ pass < MaxPasses
    /\ html' = rewriteUrls(html, BaseUrl)
    /\ pass' = pass + 1
    /\ UNCHANGED <<doc, serverVars, roundTripVars, scriptVars, pageVars>>

NextRewrite == RewritePass

SpecRewrite == InitRewrite /\ [][NextRewrite]_vars

(***************************************************************************)
(* Specification of the round trip: a page holds the absolute URL rawUrl,  *)
(* toProxyUrl emits its proxy reference, the browser requests it           *)
(***************************************************************************)
\* what follows "origin/" in a drawn URL: characters and percent escapes,
\* so that every drawn URL is in its serialized form (new URL(U).href = U)
TailUnits == { <<"a">>, <<"&">>, <<"%", "2", "6">>, <<"%", "2", "5">> }

RECURSIVE Flatten(_)
Flatten(ss) == IF ss = <<>> THEN <<>> ELSE Head(ss) \o Flatten(Tail(ss))

Tails == { Flatten(t) : t \in UNION { [1..n -> TailUnits] : n \in 0..MaxTail } }

AbsoluteUrls == { <<"http://site.test", "/">> \o t : t \in Tails }

InitRoundTrip ==
    /\ adBlockEnabled = TRUE
    /\ blockedCount = 0
    /\ adminResp = NoAdminResp
    /\ req = [r \in Reqs |-> IdleReq]
    /\ doc = <<>> /\ html = <<>> /\ pass = 0
    /\ rawUrl \in AbsoluteUrls /\ proxyRef = <<>>
    /\ NoPage

EmitProxyRef ==
    /\ proxyRef = <<>>
    /\ proxyRef' = toProxyUrl(rawUrl, BaseUrl)
    /\ UNCHANGED <<rawUrl, serverVars, rewriteVars, scriptVars, pageVars>>

\* the text after /proxy/ in the emitted reference, as the browser sends it
PathComponent(ref) == SubSeq(ref, Len(ProxyPrefix) + 1, Len(ref))

FollowProxyRef(r) ==
    /\ StartsWith(proxyRef, ProxyPrefix)
    /\ ProxyRequest(r, PathComponent(proxyRef), <<>>)

NextRoundTrip ==
    \/ EmitProxyRef
    \/ \E r \in Reqs : FollowProxyRef(r)

SpecRoundTrip == InitRoundTrip /\ [][NextRoundTrip]_vars

(***************************************************************************)
(* The script injectMetaScript puts at the top of <head>: it installs its  *)
(* interceptions one after the other, in the order of the source           *)
(***************************************************************************)
Interceptions ==
    << "localStorage", "sessionStorage", "cookie", "indexedDB", "caches",
       "serviceWorker", "history", "click", "submit", "open", "close",
       "SCRIPT", "IMG", "IFRAME", "SOURCE", "VIDEO", "AUDIO", "EMBED", "LINK",
       "fetch", "xhr", "observer", "meta" >>

\* the elements whose src (LINK: href) setter patchSrc is called for
Tags == {"SCRIPT", "IMG", "IFRAME", "SOURCE", "VIDEO", "AUDIO", "EMBED", "LINK"}

\* the statement that installs an interception
Form(name) ==
    CASE name \in {"localStorage", "sessionStorage", "cookie", "indexedDB", "caches"}
             -> "try_define"                \* try{Object.defineProperty(..)}catch(e){}
      [] name = "serviceWorker" -> "if_try_define"  \* if(navigator.serviceWorker){try{..}catch(e){}}
      [] name = "history" -> "try_call"     \* try{..history.replaceState(..)}catch(e){}
      [] name \in {"click", "submit"} -> "call"     \* document.addEventListener(..)
      [] name \in {"open", "close"} -> "assign"     \* window.open=function..
      [] name \in Tags -> "try_patch"       \* try{patchSrc(HTML..Element.prototype,..)}catch(e){}
      [] name = "fetch" -> "if_assign"      \* if(window.fetch){..window.fetch=function..}
      [] name = "xhr" -> "read_assign"      \* var _xhrOpen=XMLHttpRequest.prototype.open; ..open=function..
      [] name = "observer" -> "try_call"    \* try{new MutationObserver(..).observe(..)}catch(e){}
      [] name = "meta" -> "call"            \* send() or window.addEventListener('load',send)

\* what the host environment may do to one interception: nothing, refuse
\* the redefinition (the property is not configurable or not writable, the
\* call is rejected), or lack the object that is redefined or called
Faults == {"refuses", "lacks"}

\* the statements that redefine something of the host (addEventListener
\* and postMessage redefine nothing)
Redefinitions == { i \in 1..Len(Interceptions) : Form(Interceptions[i]) # "call" }

\* Object.getOwnPropertyDescriptor(proto, prop) of patchSrc finds a setter:
\* src is an own property of the prototypes of script, img, iframe, source
\* and embed and href of link's, while video and audio elements inherit
\* their src from HTMLMediaElement.prototype
OwnSetter(tag) == tag \notin {"VIDEO", "AUDIO"}

\* What running the statement does under the host's fault: the
\* interception is installed, it is skipped without an exception, or an
\* exception is thrown out of the script.  The script is not in strict
\* mode: an assignment to a property that is not writable does nothing.
\* An exception inside try is caught; a read of an undeclared global
\* (XMLHttpRequest) outside try throws.
Outcome(name, fault) ==
    CASE Form(name) = "try_define" -> IF fault = "refuses" THEN "skipped" ELSE "installed"
      [] Form(name) \in {"if_try_define", "try_call", "if_assign"} ->
             IF fault = "none" THEN "installed" ELSE "skipped"
      [] Form(name) = "call" -> "installed"
      [] Form(name) = "assign" -> IF fault = "refuses" THEN "skipped" ELSE "installed"
      [] Form(name) = "try_patch" ->
             IF fault = "none" /\ OwnSetter(name) THEN "installed" ELSE "skipped"
      [] Form(name) = "read_assign" ->
             CASE fault = "lacks" -> "thrown"
               [] fault = "refuses" -> "skipped"
               [] OTHER -> "installed"

Done == Len(Interceptions) + 1

\* the next statement of the script
Install ==
    /\ pc \in 1..Len(Interceptions)
    /\ ~aborted
    /\ LET name == Interceptions[pc]
           o == Outcome(name, IF host.at = pc THEN host.fault ELSE "none")
       IN  IF o = "thrown"
           THEN /\ aborted' = TRUE
                /\ UNCHANGED <<pc, installed>>
           ELSE /\ pc' = pc + 1
                /\ installed' = IF o = "installed" THEN installed \cup {name} ELSE installed
                /\ UNCHANGED aborted
    /\ UNCHANGED <<host, pageVars>>
    /\ UNCHANGED <<serverVars, rewriteVars, roundTripVars>>

\* the script starts in a host with at most one fault
InitInject ==
    /\ adBlockEnabled = TRUE
    /\ blockedCount = 0
    /\ adminResp = NoAdminResp
    /\ req = [r \in Reqs |-> IdleReq]
    /\ doc = <<>> /\ html = <<>> /\ pass = 0
    /\ rawUrl = <<>> /\ proxyRef = <<>>
    /\ host \in {NoFault} \cup [at : Redefinitions, fault : Faults]
    /\ pc = 1 /\ installed = {} /\ aborted = FALSE
    /\ el = NoEl /\ fetches = {} /\ pending = FALSE

NextInject == Install

SpecInject == InitInject /\ [][NextInject]_vars

(***************************************************************************)
(* The page after the script has run: its scripts create an element,       *)
(* assign its src (href) property or set the attribute, and the mutation   *)
(* observer's callback runs later                                          *)
(***************************************************************************)
\* var BASE='${escaped}'
BASE == BaseUrl

RECURSIVE Contains(_, _)
Contains(s, p) ==
    IF Len(s) < Len(p) THEN FALSE
    ELSE StartsWith(s, p) \/ Contains(Tail(s), p)

\* function needsProxy(u)
needsProxy(u) ==
    /\ u # <<>>
    /\ ~Contains(u, ProxyPrefix)
    /\ Head(u) \notin {"data:", "blob:", "javascript:", "#", "about:"}

\* function toProxy(u)
toProxy(u) ==
    IF Unresolvable(u) THEN u
    ELSE ProxyPrefix \o encodeURIComponent(ResolveURL(u, BASE))

\* the values page scripts give to src and href
SrcValues ==
    { <<"/", "a">>,
      <<"http://ads.test", "/", "a">>,
      <<"data:", "a">>,
      toProxy(<<"/", "a">>) }

\* the native setter and setAttribute: the attribute has the value, the
\* browser begins to load it, and the observer (if installed) is notified
NativeSet(v) ==
    /\ el' = [el EXCEPT !.attr = v]
    /\ fetches' = fetches \cup {v}
    /\ pending' = ("observer" \in installed)

\* document.createElement(tag), in the document
CreateElement(tag) ==
    /\ pc = Done
    /\ el = NoEl
    /\ el' = [tag |-> tag, attr |-> <<>>]
    /\ UNCHANGED <<fetches, pending>>
    /\ UNCHANGED <<scriptVars, serverVars, rewriteVars, roundTripVars>>

\* element.src = v (link: element.href = v): the setter patchSrc installed,
\* or the native one where none was installed
AssignSrc(v) ==
    /\ pc = Done
    /\ el # NoEl
    /\ NativeSet(IF el.tag \in installed /\ needsProxy(v) THEN toProxy(v) ELSE v)
    /\ UNCHANGED <<scriptVars, serverVars, rewriteVars, roundTripVars>>

\* element.setAttribute('src', v)
SetAttribute(v) ==
    /\ pc = Done
    /\ el # NoEl
    /\ NativeSet(v)
    /\ UNCHANGED <<scriptVars, serverVars, rewriteVars, roundTripVars>>

\* the MutationObserver's callback for an attribute record: _rwEl(m.target)
ObserverCallback ==
    /\ pending
    /\ IF needsProxy(el.attr)
       THEN NativeSet(toProxy(el.attr))
       ELSE /\ pending' = FALSE
            /\ UNCHANGED <<el, fetches>>
    /\ UNCHANGED <<scriptVars, serverVars, rewriteVars, roundTripVars>>

\* the script runs in a host without faults, before any script of the page
InitPage ==
    /\ adBlockEnabled = TRUE
    /\ blockedCount = 0
    /\ adminResp = NoAdminResp
    /\ req = [r \in Reqs |-> IdleReq]
    /\ doc = <<>> /\ html = <<>> /\ pass = 0
    /\ rawUrl = <<>> /\ proxyRef = <<>>
    /\ host = NoFault
    /\ pc = 1 /\ installed = {} /\ aborted = FALSE
    /\ el = NoEl /\ fetches = {} /\ pending = FALSE

NextPage ==
    \/ Install
    \/ \E tag \in Tags : CreateElement(tag)
    \/ \E v \in SrcValues : AssignSrc(v)
    \/ \E v \in SrcValues : SetAttribute(v)
    \/ ObserverCallback

SpecPage == InitPage /\ [][NextPage]_vars

(***************************************************************************)
(* C5.  Rewriting is idempotent: applying rewriteUrls to its own output    *)
(* yields the same output, and toProxyUrl returns a reference that already *)
(* denotes a /proxy/ path unchanged.                                       *)
(***************************************************************************)
C5_Idempotent == [][pass >= 1 /\ pass' = pass + 1 => html' = html]_vars

(***************************************************************************)
(* C6.  In every rewrite position a reference whose scheme is data:,       *)
(* javascript:, blob: or about:, or that starts with #, appears unmodified *)
(* in the output of rewriteUrls.                                           *)
(***************************************************************************)
SchemeExcluded(ref) ==
    ref # <<>> /\ Head(ref) \in {"data:", "javascript:", "blob:", "about:", "#"}

C6_SchemesUntouched ==
    pass >= 1 =>
        \A i \in 1..Len(doc) : SchemeExcluded(doc[i].ref) => html[i].ref = doc[i].ref

(***************************************************************************)
(* C7.  For every absolute URL U outside the proxy namespace, the rewrite  *)
(* of U is /proxy/ followed by an encoding from which the Dispatcher's     *)
(* decoding of the incoming proxy path recovers exactly U.                 *)
(***************************************************************************)
C7_RoundTrip ==
    /\ proxyRef # <<>> => StartsWith(proxyRef, ProxyPrefix)
    /\ \A r \in Reqs : req[r].phase # "idle" => req[r].url = rawUrl

(***************************************************************************)
(* Claims about the Dispatcher and the Fetcher (specification Spec)        *)
(***************************************************************************)
\* the statuses the callback answers a transport fault or a timeout with
FaultStatuses == {500, 504}

\* the target the raw path denotes, as the handler decodes it
TargetOf(path) ==
    LET param == decodeURIComponent(path)
    IN  IF param = URIError THEN URIError ELSE decodeURIComponent(param)

\* the target's hostname is one the gate blocks
TargetsBlockedHost(path) ==
    /\ TargetOf(path) # URIError
    /\ ParseURL(TargetOf(path)) # InvalidURL
    /\ isBlocked(Hostname(ParseURL(TargetOf(path))))

\* the request paths whose target the gate blocks
BlockedHostPaths == { path \in ProxyPaths : TargetsBlockedHost(path) }

(***************************************************************************)
(* C1.  A chain of exactly 10 redirect hops succeeds and its result's      *)
(* final URL is the URL reached after the 10th hop; a chain of 11 hops     *)
(* is answered 508, and never is a request beyond the one that returned    *)
(* the 11th redirect issued.  (The chain's hops are answered, so no        *)
(* transport fault or timeout has answered the request first.)             *)
(***************************************************************************)
C1_RedirectBound ==
    \A r \in Reqs :
        LET q == req[r]
        IN  /\ q.issued <= MAX_REDIRECTS + 1
            /\ q.resp.status = 508 =>
                   /\ q.hops = MAX_REDIRECTS + 1
                   /\ q.issued = MAX_REDIRECTS + 1
                   /\ q.phase = "closed"
            /\ q.hops = MAX_REDIRECTS + 1 =>
                   /\ q.phase = "closed" /\ q.responded
                   /\ q.resp.status \notin FaultStatuses => q.resp.status = 508
            /\ (q.hops = MAX_REDIRECTS /\ q.phase = "closed"
                  /\ q.resp.status \notin FaultStatuses) =>
                   /\ q.resp.status \in TerminalStatuses
                   /\ q.resp.body = "content"
                   /\ q.resp.finalUrl = q.url
                   /\ q.issued = MAX_REDIRECTS + 1

C1_Witness ==
    /\ \E r \in Reqs : req[r].resp.status = 508 /\ req[r].issued = MAX_REDIRECTS + 1
    /\ \E r \in Reqs : /\ req[r].hops = MAX_REDIRECTS
                       /\ req[r].resp.status = 200
                       /\ req[r].resp.finalUrl = <<"http://ads.test", "/">>

(***************************************************************************)
(* C2.  Whenever adBlockEnabled is true and isBlocked(hostname of the      *)
(* target) is true, the Dispatcher answers 204 with an empty body, raises  *)
(* blockedCount by exactly 1 and issues no upstream request.               *)
(***************************************************************************)
C2_GateSuppresses ==
    [][\A r \in Reqs, path \in BlockedHostPaths, query \in Queries :
          (ProxyRequest(r, path, query) /\ adBlockEnabled) =>
              /\ req'[r].resp = [status |-> 204, body |-> "empty", finalUrl |-> <<>>]
              /\ blockedCount' = blockedCount + 1
              /\ req'[r].issued = 0
              /\ req'[r].phase = "closed"]_vars

C2_Witness ==
    \E r \in Reqs : /\ req[r].resp.status = 204
                    /\ req[r].issued = 0
                    /\ blockedCount = req[r].seen + 1

(***************************************************************************)
(* C3.  While adBlockEnabled is false a request to a gate-blocked hostname *)
(* reaches the Fetcher, is not answered 204 and leaves blockedCount        *)
(* unchanged; once the flag is on again the same request is answered 204   *)
(* and raises blockedCount by exactly 1.                                   *)
(***************************************************************************)
C3_ToggleGate ==
    [][\A r \in Reqs, path \in BlockedHostPaths, query \in Queries :
          /\ ProxyRequest(r, path, query) =>
                 IF adBlockEnabled
                 THEN /\ req'[r].resp.status = 204
                      /\ req'[r].issued = 0
                      /\ blockedCount' = blockedCount + 1
                 ELSE /\ req'[r].issued = 1
                      /\ req'[r].phase = "headers"
                      /\ isBlocked(Hostname(req'[r].url))
                      /\ req'[r].resp = NoResp
                      /\ blockedCount' = blockedCount
          /\ req[r].issued >= 1 => req'[r].resp.status # 204]_vars

\* a blocked-host request was fetched (flag off) while nothing had been
\* suppressed, and with the flag on again the other request was suppressed
C3_Witness ==
    /\ adBlockEnabled
    /\ blockedCount = 1
    /\ \E r1, r2 \in Reqs :
          /\ req[r1].issued = 1 /\ req[r1].hops = 0
          /\ isBlocked(Hostname(req[r1].url))
          /\ req[r1].seen = 0
          /\ req[r2].resp.status = 204

(***************************************************************************)
(* C4.  Under any interleaving of in-flight proxy requests blockedCount    *)
(* never decreases and equals the number of requests the gate has          *)
(* suppressed, GET /blocked-count returns that value, and a step that      *)
(* suppresses no request leaves it unchanged.                              *)
(***************************************************************************)
Suppressed(rq) == { r \in Reqs : rq[r].resp.status = 204 }

C4_CounterExact ==
    [][/\ blockedCount' >= blockedCount
       /\ blockedCount' = Cardinality(Suppressed(req'))
       /\ Suppressed(req') = Suppressed(req) => blockedCount' = blockedCount
       /\ GetBlockedCount => /\ adminResp'.kind = "count"
                             /\ adminResp'.count = Cardinality(Suppressed(req))]_vars

\* a fetch is in flight behind a redirect while the other request has been
\* suppressed, and /blocked-count has reported it
C4_Witness ==
    /\ blockedCount = 1
    /\ adminResp.kind = "count" /\ adminResp.count = 1
    /\ \E r1, r2 \in Reqs :
          /\ req[r1].phase = "headers" /\ req[r1].hops >= 1
          /\ req[r2].resp.status = 204

(***************************************************************************)
(* C8.  A proxy request whose target is missing or cannot be parsed as an  *)
(* absolute URL is answered 400 with a body {error: string}, with or       *)
(* without query parameters, and no upstream request is issued.            *)
(***************************************************************************)
TargetMissingOrUnparseable(path) ==
    \/ TargetOf(path) = URIError
    \/ TargetOf(path) = <<>>
    \/ ParseURL(TargetOf(path)) = InvalidURL

C8_BadTarget400 ==
    [][\A r \in Reqs, path \in ProxyPaths, query \in Queries :
          (ProxyRequest(r, path, query) /\ TargetMissingOrUnparseable(path)) =>
              /\ req'[r].resp.status = 400
              /\ req'[r].resp.body = "json_error"
              /\ req'[r].issued = 0]_vars

C10_NoRetry ==
    [][\A r \in Reqs :
          /\ ((TransportError(r) \/ DrainError(r) \/ Timeout(r)) /\ ~req[r].responded) =>
                 req'[r].resp.status \in FaultStatuses
          /\ (req[r].issued >= 1 /\ req[r].resp.status \in FaultStatuses) =>
                 req'[r].issued = req[r].issued]_vars

(***************************************************************************)
(* C11.  The query parameters of the proxy request are appended, in the    *)
(* order they were sent, after the target URL's own query string, and the  *)
(* first upstream request goes to that URL; with no query parameters the   *)
(* decoded target is fetched unchanged.                                    *)
(***************************************************************************)
\* the parameters as they were sent: "k1=v1&k2=v2..."
RECURSIVE SentParameters(_)
SentParameters(query) ==
    IF query = <<>> THEN <<>>
    ELSE <<Head(query)[1], "=", Head(query)[2]>>
         \o (IF Len(query) > 1 THEN <<"&">> ELSE <<>>)
         \o SentParameters(Tail(query))

\* the request paths whose target is fetched: an absolute http URL the
\* gate lets through
FetchedPaths ==
    { path \in ProxyPaths : /\ ~TargetMissingOrUnparseable(path)
                            /\ ProtocolSupported(TargetOf(path))
                            /\ ~TargetsBlockedHost(path) }

C11_QueryAppended ==
    [][\A r \in Reqs, path \in FetchedPaths, query \in Queries :
          ProxyRequest(r, path, query) =>
              /\ req'[r].issued = 1
              /\ req'[r].url =
                     IF query = <<>> THEN TargetOf(path)
                     ELSE TargetOf(path)
                            \o (IF \E i \in 1..Len(TargetOf(path)) : TargetOf(path)[i] = "?"
                                THEN <<"&">> ELSE <<"?">>)
                            \o SentParameters(query)]_vars

(***************************************************************************)
(* C12.  Every interception of the injected script is fault-tolerant on    *)
(* its own: when the host environment refuses or lacks one redefinition,   *)
(* that one is skipped without an exception and every other interception,  *)
(* the later ones included, is installed as in a host without faults.      *)
(***************************************************************************)
C12_FaultTolerant ==
    /\ ~aborted
    /\ pc = Done =>
          \A i \in 1..Len(Interceptions) :
              i # host.at =>
                  (Interceptions[i] \in installed
                      <=> Outcome(Interceptions[i], "none") = "installed")

(***************************************************************************)
(* C13.  Assigning a URL to the src of a script, image, iframe, source,    *)
(* video, audio or embed element, or to the href of a link element,        *)
(* rewrites the value at the assignment: the value the element gets and    *)
(* the browser begins to load is the proxy form, never the value assigned. *)
(***************************************************************************)
C13_RewrittenAtAssignment ==
    [][\A v \in SrcValues :
          (AssignSrc(v) /\ needsProxy(v)) =>
              /\ el'.attr = toProxy(v)
              /\ \A f \in fetches' \ fetches : ~needsProxy(f)]_vars

(***************************************************************************)
(* C14.  In the HTML pipeline the script bodies are taken out before any   *)
(* rewriting step and put back afterwards: the text of every script body   *)
(* in the output of rewriteUrls is the text it had in the input, whatever  *)
(* href/src/action, srcset or url(...) look-alikes it contains.            *)
(***************************************************************************)
C14_ScriptBodiesVerbatim ==
    pass >= 1 =>
        \A i \in 1..Len(doc) : doc[i].inScript => html[i].ref = doc[i].ref

(***************************************************************************)
(* C15.  Every answer that carries proxied upstream content has the        *)
(* headers Cache-Control: no-store, no-cache, must-revalidate, private;    *)
(* Pragma: no-cache; Expires: 0; Referrer-Policy: no-referrer;             *)
(* X-Content-Type-Options: nosniff, and has no Set-Cookie, X-Frame-Options *)
(* or Content-Security-Policy-Report-Only header, whatever headers the     *)
(* upstream response had.                                                  *)
(***************************************************************************)
PrivacyHeaders ==
    { <<"cache-control", "no-store, no-cache, must-revalidate, private">>,
      <<"pragma", "no-cache">>,
      <<"expires", "0">>,
      <<"referrer-policy", "no-referrer">>,
      <<"x-content-type-options", "nosniff">> }

StrippedHeaders ==
    {"set-cookie", "x-frame-options", "content-security-policy-report-only"}

C15_PrivacyHeaders ==
    \A r \in Reqs :
        req[r].resp.body = "content" =>
            /\ PrivacyHeaders \subseteq req[r].headers
            /\ \A x \in req[r].headers :
                  /\ x[1] \notin StrippedHeaders
                  /\ \A y \in PrivacyHeaders : x[1] = y[1] => x = y

\* content is answered whose upstream response (the one with the content
\* type text/css) carried a cookie, framing and caching directives
C15_Witness ==
    \E r \in Reqs :
        /\ req[r].resp.body = "content"
        /\ req[r].hops >= 1
        /\ <<"content-type", "text/css">> \in req[r].headers

(***************************************************************************)
(* C16.  POST /adblock with {enabled: b} for a boolean b sets              *)
(* adBlockEnabled to b and answers {enabled: b}; no other operation        *)
(* changes adBlockEnabled, whose initial value is true.                    *)
(***************************************************************************)
C16_ToggleOnly ==
    /\ adBlockEnabled = TRUE
    /\ [][/\ \A b \in {"true", "false"} :
                PostAdblock(b) =>
                    /\ adBlockEnabled' = (b = "true")
                    /\ adminResp' = [kind |-> "enabled", count |-> 0,
                                     enabled |-> (b = "true")]
          /\ adBlockEnabled' # adBlockEnabled =>
                \E e \in BodyEnabledValues : PostAdblock(e)]_vars

\* the gate has been switched off and on again while a fetch is in flight
C16_Witness ==
    /\ adBlockEnabled = TRUE
    /\ adminResp = [kind |-> "enabled", count |-> 0, enabled |-> TRUE]
    /\ \E r1, r2 \in Reqs :
          /\ req[r1].phase = "headers" /\ Hostname(req[r1].url) = "ads.test"
                /\ req[r1].hops = 0
          /\ req[r2].resp.status = 204

(***************************************************************************)
(* C17.  The hops of one logical request are strictly sequential: the      *)
(* request of hop k+1 is issued only when the response headers of hop k    *)
(* have been received, and never do two hops of the same request await     *)
(* their response headers at once.                                         *)
(***************************************************************************)
C17_HopsSequential ==
    [][\A r \in Reqs :
          /\ req'[r].awaiting <= 1
          /\ req'[r].issued > req[r].issued =>
                /\ req'[r].issued = req[r].issued + 1
                /\ req'[r].awaiting = 1
                /\ \/ req[r].issued = 0 /\ req[r].phase = "idle"
                   \/ /\ req[r].phase = "headers" /\ req[r].awaiting = 1
                      /\ \E location \in Locations : ReceiveRedirect(r, location)]_vars

C17_Witness ==
    \E r \in Reqs : /\ req[r].hops >= 2
                    /\ req[r].issued = req[r].hops + 1
                    /\ req[r].phase = "headers"
                    /\ req[r].awaiting = 1

(***************************************************************************)
(* C18.  Nothing of a successful fetch is sent before the pipeline is      *)
(* through: the answer with the content is sent only when the terminal     *)
(* hop's body has been received completely (its 'end'), with the terminal  *)
(* hop's status and URL, and never while a hop is in flight; a redirect    *)
(* hop's body is no part of it.                                            *)
(***************************************************************************)
C18_SentAfterBody ==
    [][\A r \in Reqs :
          /\ req'[r].resp.body = "content" => req'[r].phase = "closed"
          /\ (req'[r].resp.body = "content" /\ req[r].resp.body # "content") =>
                /\ req[r].phase = "body"
                /\ \E headers \in UpstreamHeaders : BodyEnd(r, headers)
                /\ req'[r].resp.status = req[r].statusCode
                /\ req[r].statusCode \in TerminalStatuses
                /\ req'[r].resp.finalUrl = req[r].url
                /\ req'[r].hops = req[r].hops]_vars

\* the content of the hop after two redirects has been answered
C18_Witness ==
    \E r \in Reqs : /\ req[r].resp.body = "content"
                    /\ req[r].resp.status = 200
                    /\ req[r].hops = 2
                    /\ req[r].issued = 3
                    /\ req[r].phase = "closed"

(***************************************************************************)
(* C19.  Each proxy request is answered at most once: however often and in *)
(* whatever order the fetcher's callback fires (a timeout followed by the  *)
(* destroy error, an error after the end, events of several hops), the     *)
(* first callback determines the answer and later ones change nothing.     *)
(***************************************************************************)
C19_AnsweredOnce ==
    [][\A r \in Reqs :
          req[r].resp # NoResp =>
              /\ req'[r].resp = req[r].resp
              /\ req'[r].headers = req[r].headers]_vars

\* the timeout has been answered and the destroyed request's error has
\* called back after it
C19_Witness ==
    \E r \in Reqs : /\ req[r].resp.status = 504
                    /\ req[r].responded
                    /\ req[r].phase = "closed"

(***************************************************************************)
(* C20.  Once a hop has returned a redirect and the next hop has been      *)
(* issued, no later event on the earlier hop's transport (an error while   *)
(* its body is drained, its timer) can fail the logical request: the       *)
(* outcome is determined by the hop in flight alone.                       *)
(***************************************************************************)
C20_EarlierHopHarmless ==
    [][\A r \in Reqs : DrainError(r) => req'[r].resp = req[r].resp]_vars

(***************************************************************************)
(* C21.  While adBlockEnabled is true, no upstream request is issued to a  *)
(* hostname for which isBlocked is true: neither for the initial target    *)
(* nor for any redirect destination followed during the logical request.   *)
(***************************************************************************)
C21_NoRequestToBlockedHost ==
    [][\A r \in Reqs :
          (adBlockEnabled /\ req'[r].issued > req[r].issued) =>
              ~isBlocked(Hostname(req'[r].url))]_vars

====
